---- MODULE Spec2Model ----
(***************************************************************************)
(* Model of camilladsp's configuration validator (src/config.rs), of the   *)
(* AudioChunk constructors and of the capture/playback device contracts    *)
(* (src/audiodevice.rs).                                                   *)
(*                                                                         *)
(* Three independent parts share the module, each with a specification:    *)
(*   SpecConfig  - validate_config applied to a bounded family of          *)
(*                 configurations;                                         *)
(*   SpecChunk   - AudioChunk::new and AudioChunk::from applied to bounded *)
(*                 waveform sets;                                          *)
(*   SpecStream  - the capture thread, the bounded chunk channel and the   *)
(*                 playback thread (FairSpecStream adds the fairness the   *)
(*                 thread scheduler gives).                                *)
(* Sample values and gains are floating point numbers in the program and   *)
(* play no part in any property below: samples are a single value, gains   *)
(* are left out.                                                           *)
(***************************************************************************)
EXTENDS Integers, Sequences, FiniteSets, TLC

VARIABLES
    conf,             \* the Configuration handed to validate_config
    result,           \* what validate_config returned (Pending before the call)
    parent,           \* the AudioChunk built by AudioChunk::new
    derived,          \* the AudioChunk built by AudioChunk::from(&parent, ..)
    from_waveforms,   \* the waveforms handed to the last AudioChunk::from
    panicked,         \* AudioChunk::new indexed waveforms[0] of an empty Vec
    cap_pc,           \* position of the capture thread
    pb_pc,            \* position of the playback thread
    arrived,          \* threads waiting at the start barrier
    source,           \* chunks the capture source still holds
    chunk_channel,    \* mpsc::sync_channel of AudioMessage, capture -> playback
    command_channel,  \* CommandMessage queue, orchestrator -> capture
    status_channel,   \* StatusMessage queue, device threads -> orchestrator
    sent,             \* history: every AudioMessage capture has sent
    received,         \* history: every AudioMessage playback has received
    played            \* history: ids of the Audio chunks written to the sink

configVars == <<conf, result>>
chunkVars  == <<parent, derived, from_waveforms, panicked>>
streamVars == <<cap_pc, pb_pc, arrived, source, chunk_channel, command_channel,
                status_channel, sent, received, played>>
vars == <<conf, result, parent, derived, from_waveforms, panicked, cap_pc, pb_pc,
          arrived, source, chunk_channel, command_channel, status_channel, sent,
          received, played>>

(***************************************************************************)
(* Bounds                                                                  *)
(***************************************************************************)
MaxChannels == 2      \* device, mixer and waveform channel counts are 1..MaxChannels
MaxPipelineLen == 2   \* steps in a pipeline
MaxFrames == 2        \* frames in one waveform
MaxClock == 1         \* values of Instant::now()
MaxChunks == 5        \* chunks the capture source holds
ChannelCap == 2       \* capacity the chunk channel is created with

(***************************************************************************)
(* config.rs: the configuration                                            *)
(***************************************************************************)
ChannelCounts == 1..MaxChannels
ChannelIndices == 0..MaxChannels

\* Device::File { channels, .. }; the other fields play no part in validation
Device == [type : {"File"}, channels : ChannelCounts]

Devices == [capture : Device, playback : Device]

MixerChannels == [in : ChannelCounts, out : ChannelCounts]

MixerSource == [channel : ChannelIndices]

\* one destination fed by one source; the family uses the same index for both
MixerMapping == {[dest |-> s.channel, sources |-> <<s>>] : s \in MixerSource}

Mixer == {[channels |-> c, mapping |-> <<m>>] : c \in MixerChannels, m \in MixerMapping}

\* the names pipeline steps use: "m1", "gain1" and "convbad" are declared,
\* "missing" and "nofilter" are not
MixerNames == {"m1", "missing"}
FilterNameLists == { <<"gain1">>, <<"nofilter">>, <<"convbad", "nofilter">> }

PipelineStep ==
    [type : {"Mixer"}, name : MixerNames]
    \cup [type : {"Filter"}, channel : ChannelIndices, names : FilterNameLists]

RECURSIVE SeqsUpTo(_, _)
SeqsUpTo(S, n) ==
    IF n = 0 THEN { <<>> }
    ELSE LET shorter == SeqsUpTo(S, n - 1)
         IN  shorter \cup {Append(p, s) : p \in {q \in shorter : Len(q) = n - 1}, s \in S}

\* the filters every configuration of the family declares: a gain filter and
\* a convolution filter whose coefficient file does not exist
DeclaredFilters ==
    [n \in {"gain1", "convbad"} |->
        IF n = "gain1" THEN [type |-> "Gain"]
        ELSE [type |-> "Conv", file_exists |-> FALSE]]

Pipelines == SeqsUpTo(PipelineStep, MaxPipelineLen)

MakeConfiguration(d, m, p) ==
    [devices |-> d, mixers |-> [n \in {"m1"} |-> m], filters |-> DeclaredFilters,
     pipeline |-> p]

(***************************************************************************)
(* config.rs: validate_config                                              *)
(***************************************************************************)
\* Res<()>: Ok(()) or Err(ConfigError) whose text is a format string (kind)
\* and its arguments; examined counts the pipeline steps the loop entered
OkResult == [kind |-> "Ok"]
MissingMixerError(name) == [kind |-> "MissingMixer", name |-> name]
WrongInputError(name, expected, found) ==
    [kind |-> "WrongMixerInput", name |-> name, expected |-> expected, found |-> found]
BadChannelError(channel) == [kind |-> "NonExistingChannel", channel |-> channel]
MissingFilterError(name) == [kind |-> "MissingFilter", name |-> name]
OutputMismatchError(outputs, playback) ==
    [kind |-> "OutputMismatch", outputs |-> outputs, playback |-> playback]

\* filters::validate_filter: a convolution filter needs its coefficient source
InvalidFilterError == [kind |-> "InvalidFilter"]
validate_filter(filter) ==
    IF filter.type = "Conv" /\ ~filter.file_exists THEN InvalidFilterError ELSE OkResult

DeviceChannels(device) == device.channels

contains_key(map, name) == name \in DOMAIN map

\* a mixer with too few inputs goes unnoticed
MixerInputWrong_onlyMore(chan_in, num_channels) == chan_in > num_channels

MixerInputWrong(chan_in, num_channels) == chan_in # num_channels

FilterChannelBad(channel, num_channels) == channel > num_channels

\* the running count is not replaced by the mixer's output count
MixerOutput_keepsInput(mixer) == mixer.channels.in

MixerOutput(mixer) == mixer.channels.out

\* a pipeline with too few outputs goes unnoticed
OutputWrong_onlyMore(num_channels, num_channels_out) == num_channels > num_channels_out

OutputWrong(num_channels, num_channels_out) == num_channels # num_channels_out

\* for name in names { .. }
RECURSIVE CheckNames(_, _, _)
CheckNames(filters, names, i) ==
    IF i > Len(names) THEN OkResult
    ELSE IF ~contains_key(filters, names[i]) THEN MissingFilterError(names[i])
    ELSE LET r == validate_filter(filters[names[i]])
         IN  IF r # OkResult THEN r ELSE CheckNames(filters, names, i + 1)

\* one arm of match step: the step's error or Ok, and the channel count after it
CheckStep(c, step, num_channels) ==
    IF step.type = "Mixer" THEN
        IF ~contains_key(c.mixers, step.name)
        THEN [res |-> MissingMixerError(step.name), num_channels |-> num_channels]
        ELSE LET chan_in == c.mixers[step.name].channels.in
             IN  IF MixerInputWrong(chan_in, num_channels)
                 THEN [res |-> WrongInputError(step.name, num_channels, chan_in),
                       num_channels |-> num_channels]
                 ELSE [res |-> OkResult, num_channels |-> MixerOutput(c.mixers[step.name])]
    ELSE
        IF FilterChannelBad(step.channel, num_channels)
        THEN [res |-> BadChannelError(step.channel), num_channels |-> num_channels]
        ELSE [res |-> CheckNames(c.filters, step.names, 1), num_channels |-> num_channels]

\* the walk goes on after an error and reports the last one it finds
RECURSIVE WalkPipeline_lastError(_, _, _)
WalkPipeline_lastError(c, i, num_channels) ==
    IF i > Len(c.pipeline)
    THEN [res |-> OkResult, num_channels |-> num_channels, examined |-> i - 1]
    ELSE LET s == CheckStep(c, c.pipeline[i], num_channels)
             rest == WalkPipeline_lastError(c, i + 1, s.num_channels)
         IN  IF s.res # OkResult /\ rest.res = OkResult
             THEN [res |-> s.res, num_channels |-> s.num_channels, examined |-> rest.examined]
             ELSE rest

\* for step in conf.pipeline { .. }, from step i on with the running count
RECURSIVE WalkPipeline(_, _, _)
WalkPipeline(c, i, num_channels) ==
    IF i > Len(c.pipeline)
    THEN [res |-> OkResult, num_channels |-> num_channels, examined |-> i - 1]
    ELSE LET s == CheckStep(c, c.pipeline[i], num_channels)
         IN  IF s.res # OkResult
             THEN [res |-> s.res, num_channels |-> s.num_channels, examined |-> i]
             ELSE WalkPipeline(c, i + 1, s.num_channels)

validate_config(c) ==
    LET w == WalkPipeline(c, 1, DeviceChannels(c.devices.capture))
        num_channels_out == DeviceChannels(c.devices.playback)
    IN  IF w.res # OkResult THEN [res |-> w.res, examined |-> w.examined]
        ELSE IF OutputWrong(w.num_channels, num_channels_out)
        THEN [res |-> OutputMismatchError(w.num_channels, num_channels_out),
              examined |-> w.examined]
        ELSE [res |-> OkResult, examined |-> w.examined]

(***************************************************************************)
(* audiodevice.rs: AudioChunk                                              *)
(***************************************************************************)
Sample == 0

Waveform == {[k \in 1..n |-> Sample] : n \in 0..MaxFrames}

\* Vec<Vec<PrcFmt>>: any number of channels, the empty Vec included, each
\* channel of any length
WaveformSets == SeqsUpTo(Waveform, MaxChannels)

MaxVals == {1, 2}
MinVals == {-1, -2}
ValidFrameCounts == 0..(MaxFrames + 1)
Instants == 0..MaxClock

\* AudioChunk::new; now is the value of Instant::now()
AudioChunk_new(waveforms, maxval, minval, valid_frames, now) ==
    [frames |-> Len(waveforms[1]),
     channels |-> Len(waveforms),
     maxval |-> maxval,
     minval |-> minval,
     timestamp |-> now,
     valid_frames |-> valid_frames,
     waveforms |-> waveforms]

\* the derived chunk counts its valid frames anew from the parent's capacity
AudioChunk_from_allValid(chunk, waveforms) ==
    [frames |-> chunk.frames,
     channels |-> Len(waveforms),
     maxval |-> chunk.maxval,
     minval |-> chunk.minval,
     timestamp |-> chunk.timestamp,
     valid_frames |-> chunk.frames,
     waveforms |-> waveforms]

\* AudioChunk::from
AudioChunk_from(chunk, waveforms) ==
    [frames |-> chunk.frames,
     channels |-> Len(waveforms),
     maxval |-> chunk.maxval,
     minval |-> chunk.minval,
     timestamp |-> chunk.timestamp,
     valid_frames |-> chunk.valid_frames,
     waveforms |-> waveforms]

Pending == [res |-> [kind |-> "Pending"], examined |-> 0]

NoChunk == [none |-> TRUE]

ChunkIdle ==
    /\ parent = NoChunk /\ derived = NoChunk /\ from_waveforms = <<>>
    /\ panicked = FALSE

StreamIdle ==
    /\ cap_pc = "idle" /\ pb_pc = "idle" /\ arrived = {} /\ source = 0
    /\ chunk_channel = <<>> /\ command_channel = <<>> /\ status_channel = <<>>
    /\ sent = <<>> /\ received = <<>> /\ played = <<>>

NoConf == [none |-> TRUE]

ConfigIdle == conf = NoConf /\ result = Pending

InitConfig ==
    /\ \E d \in Devices, m \in Mixer, p \in Pipelines : conf = MakeConfiguration(d, m, p)
    /\ result = Pending
    /\ ChunkIdle
    /\ StreamIdle

Validate ==
    /\ result = Pending
    /\ result' = validate_config(conf)
    /\ UNCHANGED <<conf, chunkVars, streamVars>>

NextConfig == Validate

SpecConfig == InitConfig /\ [][NextConfig]_vars

(***************************************************************************)
(* AudioChunk::new once, then AudioChunk::from once on the chunk it built  *)
(***************************************************************************)
InitChunk ==
    /\ ConfigIdle
    /\ ChunkIdle
    /\ StreamIdle

\* let frames = waveforms[0].len() panics on an empty Vec
ChunkNew ==
    /\ parent = NoChunk /\ ~panicked
    /\ \E w \in WaveformSets, mx \in MaxVals, mn \in MinVals,
          vf \in ValidFrameCounts, now \in Instants :
            IF w = <<>>
            THEN panicked' = TRUE /\ parent' = parent
            ELSE panicked' = panicked /\ parent' = AudioChunk_new(w, mx, mn, vf, now)
    /\ UNCHANGED <<derived, from_waveforms, configVars, streamVars>>

\* from takes the parent by shared reference
ChunkFrom ==
    /\ parent # NoChunk /\ derived = NoChunk
    /\ \E w \in WaveformSets :
            /\ derived' = AudioChunk_from(parent, w)
            /\ from_waveforms' = w
    /\ UNCHANGED <<parent, panicked, configVars, streamVars>>

NextChunk == ChunkNew \/ ChunkFrom

SpecChunk == InitChunk /\ [][NextChunk]_vars

(***************************************************************************)
(* audiodevice.rs: the device contracts.  CaptureDevice::start is handed   *)
(* the SyncSender end of the chunk channel, PlaybackDevice::start the      *)
(* Receiver end; both get the start barrier and the status channel, the    *)
(* capture device also the command channel.  The thread bodies belong to   *)
(* the backends and follow the contracts' description.                     *)
(***************************************************************************)
\* enum AudioMessage
Audio(chunk) == [type |-> "Audio", chunk |-> chunk]
EndOfStream == [type |-> "EndOfStream"]

Threads == {"capture", "playback"}

\* a send on an unbounded channel never waits
CanSend_unbounded(channel) == TRUE

\* mpsc::SyncSender::send returns once the buffer has room for the message
CanSend(channel) == Len(channel) < ChannelCap

\* mpsc::Receiver::recv takes the oldest message
RecvMessage(channel) == Head(channel)
RecvRest(channel) == Tail(channel)

\* the playback loop treats every message as audio
PlaybackAfter_neverEnds(msg) == "write"

\* match on the received message: Audio goes to the sink, EndOfStream ends the loop
PlaybackAfter(msg) == IF msg = EndOfStream THEN "done" ELSE "write"

\* the chunks of the source are numbered in the order they are read
NextChunkId == Len(SelectSeq(sent, LAMBDA m : m.type = "Audio")) + 1

InitStream ==
    /\ ConfigIdle
    /\ ChunkIdle
    /\ cap_pc = "start" /\ pb_pc = "start"
    /\ arrived = {}
    /\ source \in 0..MaxChunks
    /\ chunk_channel = <<>> /\ command_channel = <<>> /\ status_channel = <<>>
    /\ sent = <<>> /\ received = <<>> /\ played = <<>>

\* barrier.wait(): the thread arrives ..
CaptureArrive ==
    /\ cap_pc = "start"
    /\ cap_pc' = "barrier"
    /\ arrived' = arrived \cup {"capture"}
    /\ UNCHANGED <<pb_pc, source, chunk_channel, command_channel, status_channel,
                   sent, received, played, configVars, chunkVars>>

\* .. and goes on once every thread has arrived
CaptureProceed ==
    /\ cap_pc = "barrier" /\ arrived = Threads
    /\ cap_pc' = "loop"
    /\ UNCHANGED <<pb_pc, arrived, source, chunk_channel, command_channel,
                   status_channel, sent, received, played, configVars, chunkVars>>

\* top of the capture loop: a pending stop command, or an exhausted source,
\* ends the stream; otherwise the next chunk is read from the source
CaptureRead ==
    /\ cap_pc = "loop"
    /\ IF command_channel # <<>>
       THEN /\ command_channel' = Tail(command_channel)
            /\ cap_pc' = "send_eos"
            /\ source' = source
       ELSE IF source = 0
       THEN /\ cap_pc' = "send_eos"
            /\ UNCHANGED <<command_channel, source>>
       ELSE /\ cap_pc' = "send"
            /\ source' = source - 1
            /\ UNCHANGED command_channel
    /\ UNCHANGED <<pb_pc, arrived, chunk_channel, status_channel, sent, received,
                   played, configVars, chunkVars>>

\* a device fault: reported on the status channel, the thread exits and its
\* sender is dropped
CaptureFault ==
    /\ cap_pc = "loop" /\ command_channel = <<>> /\ source > 0
    /\ cap_pc' = "failed"
    /\ status_channel' = Append(status_channel, "CaptureError")
    /\ UNCHANGED <<pb_pc, arrived, source, chunk_channel, command_channel, sent,
                   received, played, configVars, chunkVars>>

\* channel.send(AudioMessage::Audio(chunk)) waits while the channel is full
CaptureSend ==
    /\ cap_pc = "send" /\ CanSend(chunk_channel)
    /\ chunk_channel' = Append(chunk_channel, Audio(NextChunkId))
    /\ sent' = Append(sent, Audio(NextChunkId))
    /\ cap_pc' = "loop"
    /\ UNCHANGED <<pb_pc, arrived, source, command_channel, status_channel,
                   received, played, configVars, chunkVars>>

\* channel.send(AudioMessage::EndOfStream), then the thread exits
CaptureSendEndOfStream ==
    /\ cap_pc = "send_eos" /\ CanSend(chunk_channel)
    /\ chunk_channel' = Append(chunk_channel, EndOfStream)
    /\ sent' = Append(sent, EndOfStream)
    /\ status_channel' = Append(status_channel, "CaptureDone")
    /\ cap_pc' = "done"
    /\ UNCHANGED <<pb_pc, arrived, source, command_channel, received, played,
                   configVars, chunkVars>>

PlaybackArrive ==
    /\ pb_pc = "start"
    /\ pb_pc' = "barrier"
    /\ arrived' = arrived \cup {"playback"}
    /\ UNCHANGED <<cap_pc, source, chunk_channel, command_channel, status_channel,
                   sent, received, played, configVars, chunkVars>>

PlaybackProceed ==
    /\ pb_pc = "barrier" /\ arrived = Threads
    /\ pb_pc' = "loop"
    /\ UNCHANGED <<cap_pc, arrived, source, chunk_channel, command_channel,
                   status_channel, sent, received, played, configVars, chunkVars>>

\* channel.recv() returns the oldest message
PlaybackRecv ==
    /\ pb_pc = "loop" /\ chunk_channel # <<>>
    /\ received' = Append(received, RecvMessage(chunk_channel))
    /\ chunk_channel' = RecvRest(chunk_channel)
    /\ pb_pc' = PlaybackAfter(RecvMessage(chunk_channel))
    /\ status_channel' = IF PlaybackAfter(RecvMessage(chunk_channel)) = "done"
                         THEN Append(status_channel, "PlaybackDone")
                         ELSE status_channel
    /\ UNCHANGED <<cap_pc, arrived, source, command_channel, sent, played,
                   configVars, chunkVars>>

\* the chunk received last is written to the sink
PlaybackWrite ==
    /\ pb_pc = "write"
    /\ played' = Append(played, received[Len(received)].chunk)
    /\ pb_pc' = "loop"
    /\ UNCHANGED <<cap_pc, arrived, source, chunk_channel, command_channel,
                   status_channel, sent, received, configVars, chunkVars>>

\* channel.recv() fails once the channel is empty and its sender is gone
PlaybackClosed ==
    /\ pb_pc = "loop" /\ chunk_channel = <<>> /\ cap_pc \in {"done", "failed"}
    /\ pb_pc' = "done"
    /\ status_channel' = Append(status_channel, "PlaybackDone")
    /\ UNCHANGED <<cap_pc, arrived, source, chunk_channel, command_channel, sent,
                   received, played, configVars, chunkVars>>

\* the orchestrator asks the capture thread to stop, once
SendStop ==
    /\ cap_pc \notin {"done", "failed", "send_eos"}
    /\ command_channel = <<>>
    /\ command_channel' = <<"Stop">>
    /\ UNCHANGED <<cap_pc, pb_pc, arrived, source, chunk_channel, status_channel,
                   sent, received, played, configVars, chunkVars>>

CaptureNext ==
    \/ CaptureArrive
    \/ CaptureProceed
    \/ CaptureRead
    \/ CaptureFault
    \/ CaptureSend
    \/ CaptureSendEndOfStream

PlaybackNext ==
    \/ PlaybackArrive
    \/ PlaybackProceed
    \/ PlaybackRecv
    \/ PlaybackWrite
    \/ PlaybackClosed

NextStream == CaptureNext \/ PlaybackNext \/ SendStop

SpecStream == InitStream /\ [][NextStream]_vars

\* the playback thread is scheduled; a sink write returns
FairSpecStream == SpecStream /\ WF_vars(PlaybackNext)

(***************************************************************************)
(* Properties of validate_config                                           *)
(***************************************************************************)
\* The running channel count flowing into step i, as the specification
\* defines it: the capture count, replaced by the declared output count of
\* each preceding mixer step and left unchanged by a filter step.
RECURSIVE RunningCount(_, _)
RunningCount(c, i) ==
    IF i = 1 THEN c.devices.capture.channels
    ELSE LET prev == c.pipeline[i - 1]
         IN  IF prev.type = "Mixer" /\ prev.name \in DOMAIN c.mixers
             THEN c.mixers[prev.name].channels.out
             ELSE RunningCount(c, i - 1)

FinalCount(c) == RunningCount(c, Len(c.pipeline) + 1)

Validated == result # Pending

Steps == 1..Len(conf.pipeline)

\* step i does not make validation fail when the running count reaches it
StepPasses(i) == CheckStep(conf, conf.pipeline[i], RunningCount(conf, i)).res = OkResult

EarlierStepsPass(i) == \A j \in 1..(i - 1) : StepPasses(j)

IsMixerStep(i) == conf.pipeline[i].type = "Mixer"
IsFilterStep(i) == conf.pipeline[i].type = "Filter"

\* the names of filter step i that the filter mapping does not hold
AbsentAt(i) ==
    {k \in 1..Len(conf.pipeline[i].names) : conf.pipeline[i].names[k] \notin DOMAIN conf.filters}

\* name k of filter step i is declared and its parameters validate
NameValid(i, k) ==
    /\ conf.pipeline[i].names[k] \in DOMAIN conf.filters
    /\ validate_filter(conf.filters[conf.pipeline[i].names[k]]) = OkResult

\* step i is consistent in the specification's sense
StepConsistent(i) ==
    IF IsMixerStep(i)
    THEN /\ conf.pipeline[i].name \in DOMAIN conf.mixers
         /\ conf.mixers[conf.pipeline[i].name].channels.in = RunningCount(conf, i)
    ELSE /\ conf.pipeline[i].channel < RunningCount(conf, i)
         /\ \A k \in 1..Len(conf.pipeline[i].names) : NameValid(i, k)

\* C1: a filter step is accepted only if its channel index is strictly below
\* the running channel count; a filter step that validation reaches with a
\* channel index equal to or above the running count fails validation with
\* the non-existing-channel error.
C1_FilterChannelBelowRunningCount ==
    Validated =>
        \A i \in Steps :
            (IsFilterStep(i) /\ EarlierStepsPass(i)
                /\ conf.pipeline[i].channel >= RunningCount(conf, i))
            => /\ result.res = BadChannelError(conf.pipeline[i].channel)
               /\ result.examined = i

\* C2: a mixer step that validation reaches, whose mixer is declared but whose
\* declared input count differs from the running count, makes validation
\* return the error naming that mixer with the expected (running) and found
\* (declared) counts.
C2_MixerInputMismatchReported ==
    Validated =>
        \A i \in Steps :
            (/\ IsMixerStep(i)
             /\ conf.pipeline[i].name \in DOMAIN conf.mixers
             /\ conf.mixers[conf.pipeline[i].name].channels.in # RunningCount(conf, i)
             /\ EarlierStepsPass(i))
            => /\ result.res = WrongInputError(conf.pipeline[i].name, RunningCount(conf, i),
                                               conf.mixers[conf.pipeline[i].name].channels.in)
               /\ result.examined = i

C2_Witness ==
    /\ Len(conf.pipeline) = 2
    /\ IsMixerStep(1) /\ StepPasses(1)
    /\ IsMixerStep(2) /\ conf.pipeline[2].name = "m1"
    /\ conf.mixers["m1"].channels.in # conf.mixers["m1"].channels.out
    /\ result.res.kind = "WrongMixerInput"

\* C3: validation returns Ok only if the running count after the last step
\* equals the playback channel count; when every step passes and the two
\* differ, it returns the error reporting the pipeline's output count and the
\* playback count (the capture count, for an empty pipeline).
C3_OutputCountChecked ==
    Validated =>
        /\ result.res = OkResult
            => FinalCount(conf) = conf.devices.playback.channels
        /\ ((\A i \in Steps : StepPasses(i))
                /\ FinalCount(conf) # conf.devices.playback.channels)
            => result.res = OutputMismatchError(FinalCount(conf),
                                                conf.devices.playback.channels)

C3_Witness ==
    /\ conf.devices.capture.channels = 2
    /\ conf.devices.playback.channels = 2
    /\ Len(conf.pipeline) = 2
    /\ conf.pipeline[1] = [type |-> "Mixer", name |-> "m1"]
    /\ conf.pipeline[2] = [type |-> "Filter", channel |-> 0, names |-> <<"gain1">>]
    /\ result.res = OutputMismatchError(1, 2)

\* C4: every accepted configuration has, for each mixer a pipeline step uses,
\* all mapping source indices below the mixer's input count and all mapping
\* destinations below its output count.
C4_AcceptedMixerMappingsInRange ==
    (Validated /\ result.res = OkResult) =>
        \A i \in Steps :
            IsMixerStep(i) =>
                LET mixer == conf.mixers[conf.pipeline[i].name]
                IN  \A m \in 1..Len(mixer.mapping) :
                        /\ mixer.mapping[m].dest < mixer.channels.out
                        /\ \A k \in 1..Len(mixer.mapping[m].sources) :
                               mixer.mapping[m].sources[k].channel < mixer.channels.in

\* C7: validation succeeds for every configuration whose steps are all
\* consistent and whose final running count equals the playback count.
C7_ConsistentConfigAccepted ==
    (/\ Validated
     /\ \A i \in Steps : StepConsistent(i)
     /\ FinalCount(conf) = conf.devices.playback.channels)
    => result.res = OkResult

C7_Witness ==
    /\ conf.devices.capture.channels = 2
    /\ conf.devices.playback.channels = 1
    /\ conf.mixers["m1"].channels = [in |-> 2, out |-> 1]
    /\ conf.pipeline = << [type |-> "Mixer", name |-> "m1"],
                          [type |-> "Filter", channel |-> 0, names |-> <<"gain1">>] >>
    /\ result.res = OkResult

\* C8 as stated: when the first offending step is a mixer step naming an
\* absent mixer, or a filter step with an in-range channel naming an absent
\* filter, validation fails with the error naming that mixer or filter and
\* examines no later step.
C8_MissingReferenceNamed ==
    Validated =>
        \A i \in Steps :
            EarlierStepsPass(i) =>
                /\ (IsMixerStep(i) /\ conf.pipeline[i].name \notin DOMAIN conf.mixers)
                    => /\ result.res = MissingMixerError(conf.pipeline[i].name)
                       /\ result.examined = i
                /\ (IsFilterStep(i) /\ conf.pipeline[i].channel < RunningCount(conf, i)
                        /\ AbsentAt(i) # {})
                    => /\ \E k \in AbsentAt(i) :
                              result.res = MissingFilterError(conf.pipeline[i].names[k])
                       /\ result.examined = i

\* C8 amended: the same, for a filter step in which every name listed before
\* the first absent one is declared and passes its own parameter validation;
\* the error then names the first absent filter.
C8_FirstMissingReferenceNamed ==
    Validated =>
        \A i \in Steps :
            EarlierStepsPass(i) =>
                /\ (IsMixerStep(i) /\ conf.pipeline[i].name \notin DOMAIN conf.mixers)
                    => /\ result.res = MissingMixerError(conf.pipeline[i].name)
                       /\ result.examined = i
                /\ (IsFilterStep(i) /\ conf.pipeline[i].channel < RunningCount(conf, i)
                        /\ \E k \in AbsentAt(i) : \A e \in 1..(k - 1) : NameValid(i, e))
                    => /\ \E k \in AbsentAt(i) :
                              /\ \A e \in 1..(k - 1) : NameValid(i, e)
                              /\ result.res = MissingFilterError(conf.pipeline[i].names[k])
                       /\ result.examined = i

C8_Witness ==
    /\ Len(conf.pipeline) = 2
    /\ conf.pipeline[1] = [type |-> "Filter", channel |-> 0, names |-> <<"nofilter">>]
    /\ conf.pipeline[2] = [type |-> "Mixer", name |-> "missing"]
    /\ result.res = MissingFilterError("nofilter")
    /\ result.examined = 1

(***************************************************************************)
(* Properties of AudioChunk                                                *)
(***************************************************************************)
ChunkWellFormed(chunk) ==
    /\ chunk.channels = Len(chunk.waveforms)
    /\ \A ch \in 1..Len(chunk.waveforms) : Len(chunk.waveforms[ch]) = chunk.frames
    /\ chunk.valid_frames <= chunk.frames

\* C5: every chunk AudioChunk::new or AudioChunk::from produces has channels
\* equal to the number of waveforms, every channel of length frames, and
\* valid_frames at most frames.
C5_ChunkInvariant ==
    /\ parent # NoChunk => ChunkWellFormed(parent)
    /\ derived # NoChunk => ChunkWellFormed(derived)

\* C6: every step that leaves a chunk built by AudioChunk::from leaves the
\* parent as it was, and the new chunk carries the parent's timestamp,
\* valid_frames, maxval and minval, the waveforms it was given, and as its
\* channel count the number of those waveforms.
C6_FromKeepsParentMetadata ==
    [][derived' # NoChunk =>
        /\ parent' = parent
        /\ derived'.timestamp = parent.timestamp
        /\ derived'.valid_frames = parent.valid_frames
        /\ derived'.maxval = parent.maxval
        /\ derived'.minval = parent.minval
        /\ derived'.waveforms = from_waveforms'
        /\ derived'.channels = Len(from_waveforms')]_vars

C6_Witness ==
    /\ parent # NoChunk /\ derived # NoChunk
    /\ derived.channels # parent.channels
    /\ derived.valid_frames = parent.valid_frames
    /\ parent.valid_frames # parent.frames
    /\ derived.timestamp = parent.timestamp /\ parent.timestamp > 0

(***************************************************************************)
(* Properties of the chunk channel                                         *)
(***************************************************************************)
EndOfStreamSent == Len(sent) > 0 /\ sent[Len(sent)] = EndOfStream
EndOfStreamReceived == Len(received) > 0 /\ received[Len(received)] = EndOfStream

\* C9: the chunk channel never holds more than its capacity and the capture
\* thread's send is not enabled while it holds that many; what playback has
\* received, followed by what the channel holds, is exactly what capture has
\* sent, so the received sequence is a prefix of the sent one with nothing
\* dropped, duplicated or reordered.
C9_BoundedFifo ==
    /\ Len(chunk_channel) <= ChannelCap
    /\ Len(chunk_channel) = ChannelCap => ~ENABLED (CaptureSend \/ CaptureSendEndOfStream)
    /\ received \o chunk_channel = sent
    /\ \A k \in 1..Len(played) : played[k] = k

C9_Witness ==
    /\ cap_pc = "send"
    /\ Len(chunk_channel) = ChannelCap
    /\ pb_pc = "write"
    /\ Len(played) >= 1

====
